---- MODULE Spec2Model ----
(***************************************************************************)
(* Model of polyglot-detect (src/main.py): three language-identification   *)
(* engine adapters, the detect_language tool that calls them in a fixed    *)
(* order, and the markdown report it renders.                              *)
(*                                                                         *)
(* Strings are sequences of tokens, so that str.replace and the f-string   *)
(* are modelled by what they do.  Probabilities are fixed point, in units  *)
(* of 1e-5 (0.1 is 10000, 1.0 is 100000), one digit pair finer than the    *)
(* three decimals of the report, so that ":.3f" is a real rounding.        *)
(***************************************************************************)
EXTENDS Integers, Sequences, FiniteSets

VARIABLES pc, text, served, ftEngine, gcldEngine, ldEngine, ft, gcld, ld,
          report, report2

vars == <<pc, text, served, ftEngine, gcldEngine, ldEngine, ft, gcld, ld,
          report, report2>>

\* ---------------------------------------------------------------- bounds
\* Number of tool calls one behaviour of the model follows.
MaxRequests == 2

\* ------------------------------------------------------------- constants
MIN_CONFIDENCE == 10000
LANGDETECT_CONFIDENCE == 50000
TopK == 3
One == 10 * MIN_CONFIDENCE

LabelPrefix == "__label__"
Und == <<"und">>

\* ------------------------------------------------------- the input texts
Texts == { <<>>, <<"Hello, how are you?">> }

\* ------------------------------------------------------------ the engines
\* What a call of an engine can do: raise, or return a value.
Raise == [kind |-> "raise"]
NotCalled == [kind |-> "notcalled"]
NoResult == [kind |-> "none"]

RECURSIVE SumSeq(_)
SumSeq(s) == IF s = <<>> THEN 0 ELSE Head(s) + SumSeq(Tail(s))

\* fastText: labels carry the "__label__" prefix; the probabilities come from
\* a float32 softmax, so the top one can exceed 1.0 by a rounding error.
FtCodes == { <<"en">>, <<"ru">>, <<"de">> }
FtLabels == { <<LabelPrefix>> \o c : c \in FtCodes }
FtProbs == { 9999, 10000, 60006, 100001 }

\* predict(text, k=3) returns at most k pairs, of distinct labels, in
\* non-increasing order of probability, the probabilities summing to 1 at
\* most (up to the rounding error).
Predictions ==
  UNION { { [kind |-> "ok", labels |-> l, probs |-> p] :
              l \in { x \in [1..n -> FtLabels] :
                        \A i, j \in 1..n : i # j => x[i] # x[j] },
              p \in { y \in [1..n -> FtProbs] :
                        /\ \A i \in 1..n : \A j \in 1..n : i < j => y[i] >= y[j]
                        /\ SumSeq(y) <= One + 1 } }
          : n \in 0..TopK }

model_predict == Predictions \cup {Raise}

\* gcld3: FindLanguage returns a Result object (language "und", probability
\* 0.0, not reliable, when it identifies nothing); the adapter also provides
\* for None.
GcldResults ==
  { [kind |-> "ok", language |-> Und, probability |-> 0, is_reliable |-> FALSE],
    [kind |-> "ok", language |-> <<"en">>, probability |-> 99996,
     is_reliable |-> TRUE],
    [kind |-> "ok", language |-> <<"bg", "-", "Latn">>, probability |-> 34567,
     is_reliable |-> FALSE] }

FindLanguage == GcldResults \cup {NoResult, Raise}

\* langdetect: detect returns a language code or raises LangDetectException.
LdCodes == { <<"en">>, <<"zh", "-", "cn">> }
langdetect_detect == { [kind |-> "ok", lang |-> c] : c \in LdCodes } \cup {Raise}

\* ------------------------------------------------------------ the adapters
\* An adapter's outcome is either a returned tuple or an exception that
\* leaves the adapter.
Escaped == [escaped |-> TRUE]

\* str.replace(old, ""): every occurrence of the token is removed.
Replace(s, old) == SelectSeq(s, LAMBDA t : t # old)

Min(a, b) == IF a < b THEN a ELSE b

\* Zip with the pairs in the opposite order (an ascending list).
ZipAscending(labels, probs) ==
  LET n == Min(Len(labels), Len(probs)) IN
  [i \in 1..n |-> <<Replace(labels[n + 1 - i], LabelPrefix), probs[n + 1 - i]>>]

\* zip(labels, probs) stops at the shorter of the two.
Zip(labels, probs) ==
  [i \in 1..Min(Len(labels), Len(probs)) |->
     <<Replace(labels[i], LabelPrefix), probs[i]>>]

\* detect_language_langdetect without its try/except.
detect_language_langdetect_nocatch(resp) ==
  IF resp.kind = "raise"
    THEN Escaped
    ELSE [escaped |-> FALSE, language |-> resp.lang,
          confidence |-> LANGDETECT_CONFIDENCE]

detect_language_langdetect(resp) ==
  IF resp.kind = "raise"
    THEN [escaped |-> FALSE, language |-> Und, confidence |-> 0]
    ELSE [escaped |-> FALSE, language |-> resp.lang,
          confidence |-> LANGDETECT_CONFIDENCE]

\* detect_language_fasttext comparing with > instead of >=.
detect_language_fasttext_gt(resp) ==
  IF resp.kind = "raise"
    THEN [escaped |-> FALSE, language |-> Und, confidence |-> 0,
          alternatives |-> <<>>]
    ELSE LET alternatives == Zip(resp.labels, resp.probs) IN
         IF Len(resp.probs) = 0    \* probs[0] raises IndexError, caught
           THEN [escaped |-> FALSE, language |-> Und, confidence |-> 0,
                 alternatives |-> <<>>]
           ELSE IF resp.probs[1] > MIN_CONFIDENCE
             THEN [escaped |-> FALSE,
                   language |-> Replace(resp.labels[1], LabelPrefix),
                   confidence |-> resp.probs[1],
                   alternatives |-> alternatives]
             ELSE [escaped |-> FALSE, language |-> Und, confidence |-> 0,
                   alternatives |-> alternatives]

\* detect_language_fasttext returning labels[0] with its prefix.
detect_language_fasttext_rawlabel(resp) ==
  IF resp.kind = "raise"
    THEN [escaped |-> FALSE, language |-> Und, confidence |-> 0,
          alternatives |-> <<>>]
    ELSE LET alternatives == Zip(resp.labels, resp.probs) IN
         IF Len(resp.probs) = 0    \* probs[0] raises IndexError, caught
           THEN [escaped |-> FALSE, language |-> Und, confidence |-> 0,
                 alternatives |-> <<>>]
           ELSE IF resp.probs[1] >= MIN_CONFIDENCE
             THEN [escaped |-> FALSE,
                   language |-> resp.labels[1],
                   confidence |-> resp.probs[1],
                   alternatives |-> alternatives]
             ELSE [escaped |-> FALSE, language |-> Und, confidence |-> 0,
                   alternatives |-> alternatives]

detect_language_fasttext(resp) ==
  IF resp.kind = "raise"
    THEN [escaped |-> FALSE, language |-> Und, confidence |-> 0,
          alternatives |-> <<>>]
    ELSE LET alternatives == Zip(resp.labels, resp.probs) IN
         IF Len(resp.probs) = 0    \* probs[0] raises IndexError, caught
           THEN [escaped |-> FALSE, language |-> Und, confidence |-> 0,
                 alternatives |-> <<>>]
           ELSE IF resp.probs[1] >= MIN_CONFIDENCE
             THEN [escaped |-> FALSE,
                   language |-> Replace(resp.labels[1], LabelPrefix),
                   confidence |-> resp.probs[1],
                   alternatives |-> alternatives]
             ELSE [escaped |-> FALSE, language |-> Und, confidence |-> 0,
                   alternatives |-> alternatives]

\* detect_language_gcld3 answering "und" for every unreliable result.
detect_language_gcld3_unreliable(resp) ==
  IF resp.kind = "raise" THEN Escaped
  ELSE IF resp.kind = "none" \/ ~resp.is_reliable
    THEN [escaped |-> FALSE, language |-> Und, confidence |-> 0,
          reliable |-> FALSE]
    ELSE [escaped |-> FALSE, language |-> resp.language,
          confidence |-> resp.probability, reliable |-> resp.is_reliable]

\* No try/except here: an exception of FindLanguage leaves the adapter.
detect_language_gcld3(resp) ==
  IF resp.kind = "raise" THEN Escaped
  ELSE IF resp.kind = "none"
    THEN [escaped |-> FALSE, language |-> Und, confidence |-> 0,
          reliable |-> FALSE]
    ELSE [escaped |-> FALSE, language |-> resp.language,
          confidence |-> resp.probability, reliable |-> resp.is_reliable]

\* ------------------------------------------------------------- the report
DigitStr == <<"0", "1", "2", "3", "4", "5", "6", "7", "8", "9">>
Digit(d) == <<DigitStr[d + 1]>>

RECURSIVE IntStr(_)
IntStr(n) == IF n < 10 THEN Digit(n) ELSE IntStr(n \div 10) \o Digit(n % 10)

\* format(x, ".3f"): x rounded to the nearest thousandth (ties to even),
\* printed with three decimals.
Round3(p) ==
  LET q == p \div 100
      r == p % 100
  IN  IF r > 50 THEN q + 1
      ELSE IF r < 50 THEN q
      ELSE IF q % 2 = 0 THEN q ELSE q + 1

Fmt3(p) ==
  LET m == Round3(p) IN
  IntStr(m \div 1000) \o <<".">> \o Digit((m \div 100) % 10)
    \o Digit((m \div 10) % 10) \o Digit(m % 10)

\* str(bool)
BoolStr(b) == IF b THEN <<"True">> ELSE <<"False">>

AltLine(a) == <<"  - ">> \o a[1] \o <<": ">> \o Fmt3(a[2])

\* A join over a list kept between calls: from the second call on, the lines
\* of the call come after a line left over from an earlier one.
JoinLinesKept(lines) ==
  IF served > 0 THEN << <<"  - ">> >> \o lines
  ELSE IF lines = <<>> THEN << <<>> >> ELSE lines

\* chr(10).join(lines): no line at all gives the empty string, which still
\* occupies its line of the template.
JoinLines(lines) == IF lines = <<>> THEN << <<>> >> ELSE lines

\* RenderReport with the Langdetect language in the GCLD3 section.
RenderReportMixed(f, g, l) ==
  << <<"# Language Detection Results">>,
     <<>>,
     <<"## FastText">>,
     <<"- **Main prediction**: ">> \o f.language \o <<" (confidence: ">>
        \o Fmt3(f.confidence) \o <<")">>,
     <<"- **Alternative predictions**:">> >>
  \o JoinLines([i \in 1..Len(f.alternatives) |-> AltLine(f.alternatives[i])])
  \o << <<>>,
        <<"## GCLD3">>,
        <<"- **Language**: ">> \o l.language,
        <<"- **Confidence**: ">> \o Fmt3(g.confidence),
        <<"- **Is reliable**: ">> \o BoolStr(g.reliable),
        <<>>,
        <<"## Langdetect">>,
        <<"- **Language**: ">> \o l.language,
        <<"- **Confidence**: ">> \o Fmt3(l.confidence) >>

RenderReport(f, g, l) ==
  << <<"# Language Detection Results">>,
     <<>>,
     <<"## FastText">>,
     <<"- **Main prediction**: ">> \o f.language \o <<" (confidence: ">>
        \o Fmt3(f.confidence) \o <<")">>,
     <<"- **Alternative predictions**:">> >>
  \o JoinLines([i \in 1..Len(f.alternatives) |-> AltLine(f.alternatives[i])])
  \o << <<>>,
        <<"## GCLD3">>,
        <<"- **Language**: ">> \o g.language,
        <<"- **Confidence**: ">> \o Fmt3(g.confidence),
        <<"- **Is reliable**: ">> \o BoolStr(g.reliable),
        <<>>,
        <<"## Langdetect">>,
        <<"- **Language**: ">> \o l.language,
        <<"- **Confidence**: ">> \o Fmt3(l.confidence) >>

\* ------------------------------------------------------- the state machine
Pending == [escaped |-> FALSE, pending |-> TRUE]
NoReport == <<>>

Init ==
  /\ pc = "idle"
  /\ text = <<>>
  /\ served = 0
  /\ ftEngine = NotCalled /\ gcldEngine = NotCalled /\ ldEngine = NotCalled
  /\ ft = Pending /\ gcld = Pending /\ ld = Pending
  /\ report = NoReport
  /\ report2 = NoReport

\* A client calls the detect_language tool.
Request ==
  /\ pc \in {"idle", "done", "raised"}
  /\ served < MaxRequests
  /\ \E t \in Texts : text' = t
  /\ pc' = "fasttext"
  /\ ftEngine' = NotCalled /\ gcldEngine' = NotCalled /\ ldEngine' = NotCalled
  /\ ft' = Pending /\ gcld' = Pending /\ ld' = Pending
  /\ report' = NoReport /\ report2' = NoReport
  /\ UNCHANGED served

CallFastText ==
  /\ pc = "fasttext"
  /\ \E resp \in model_predict :
       /\ ftEngine' = resp
       /\ ft' = detect_language_fasttext(resp)
       /\ IF ft'.escaped
            THEN pc' = "raised" /\ served' = served + 1
            ELSE pc' = "gcld3" /\ UNCHANGED served
  /\ UNCHANGED <<text, gcldEngine, ldEngine, gcld, ld, report, report2>>

CallGcld3 ==
  /\ pc = "gcld3"
  /\ \E resp \in FindLanguage :
       /\ gcldEngine' = resp
       /\ gcld' = detect_language_gcld3(resp)
       /\ IF gcld'.escaped
            THEN pc' = "raised" /\ served' = served + 1
            ELSE pc' = "langdetect" /\ UNCHANGED served
  /\ UNCHANGED <<text, ftEngine, ldEngine, ft, ld, report, report2>>

CallLangdetect ==
  /\ pc = "langdetect"
  /\ \E resp \in langdetect_detect :
       /\ ldEngine' = resp
       /\ ld' = detect_language_langdetect(resp)
       /\ IF ld'.escaped
            THEN pc' = "raised" /\ served' = served + 1
            ELSE pc' = "render" /\ UNCHANGED served
  /\ UNCHANGED <<text, ftEngine, gcldEngine, ft, gcld, report, report2>>

\* The f-string is evaluated and the call returns.
Render ==
  /\ pc = "render"
  /\ report' = RenderReport(ft, gcld, ld)
  /\ pc' = "done"
  /\ served' = served + 1
  /\ UNCHANGED <<text, ftEngine, gcldEngine, ldEngine, ft, gcld, ld, report2>>

\* The same three results are rendered once more, after the call.
Rerender ==
  /\ pc = "done"
  /\ report2 = NoReport
  /\ report2' = RenderReport(ft, gcld, ld)
  /\ UNCHANGED <<pc, text, served, ftEngine, gcldEngine, ldEngine, ft, gcld,
                 ld, report>>

Next ==
  \/ Request
  \/ CallFastText
  \/ CallGcld3
  \/ CallLangdetect
  \/ Render
  \/ Rerender

Spec == Init /\ [][Next]_vars

\* ------------------------------------------------------------- properties
UndResult == [escaped |-> FALSE, language |-> Und, confidence |-> 0]

\* The label with its first token, the prefix, taken off.
Stripped(label) == Tail(label)

\* The raw pairs of a predict result, prefix stripped, in the engine's order.
RawPairs(resp) ==
  [i \in 1..Len(resp.labels) |-> <<Stripped(resp.labels[i]), resp.probs[i]>>]

FtAnswered == ftEngine.kind = "ok" /\ Len(ftEngine.probs) > 0

\* C1: whatever engines raise, detect_language completes with one result per
\* engine in the order FastText, GCLD3, Langdetect; when FindLanguage raises,
\* the GCLD3 slot is ("und", 0.0, False), the other two results are the
\* adapters' own, and no exception leaves detect_language.
C1_FailureIsolated ==
  /\ pc # "raised"
  /\ gcldEngine = Raise =>
       gcld = [escaped |-> FALSE, language |-> Und, confidence |-> 0,
               reliable |-> FALSE]
  /\ pc = "done" =>
       /\ ft = detect_language_fasttext(ftEngine)
       /\ ld = detect_language_langdetect(ldEngine)

\* C2: when predict returns a top probability strictly below 0.10, the
\* FastText adapter returns "und" with confidence 0.0 and, as alternatives,
\* exactly the raw top-3 pairs in the engine's order with the prefix
\* stripped; a top probability equal to 0.10 is not below the threshold.
C2_BelowThresholdIsUnd ==
  FtAnswered =>
    /\ ftEngine.probs[1] < MIN_CONFIDENCE =>
         /\ ft.language = Und
         /\ ft.confidence = 0
         /\ ft.alternatives = RawPairs(ftEngine)
         /\ Len(ft.alternatives) <= TopK
    /\ ftEngine.probs[1] = MIN_CONFIDENCE =>
         /\ ft.language = Stripped(ftEngine.labels[1])
         /\ ft.confidence = MIN_CONFIDENCE

C2_Witness ==
  /\ FtAnswered
  /\ Len(ftEngine.probs) = TopK
  /\ ftEngine.probs[1] < MIN_CONFIDENCE
  /\ ft.language = Und
  /\ Len(ft.alternatives) = TopK

\* C3: the confidence every adapter returns lies in [0.0, 1.0], whatever
\* probability the engine hands back.
C3_ConfidenceInUnitInterval ==
  \A r \in {ft, gcld, ld} :
    "confidence" \in DOMAIN r => (0 <= r.confidence /\ r.confidence <= One)

C5_LangdetectPlaceholder ==
  ldEngine # NotCalled =>
    /\ ~ld.escaped
    /\ ldEngine.kind = "ok" =>
         (ld.language = ldEngine.lang /\ 2 * ld.confidence = One)
    /\ ldEngine.kind = "raise" => (ld.language = Und /\ ld.confidence = 0)
    /\ DOMAIN ld = {"escaped", "language", "confidence"}

C5_Witness ==
  /\ ldEngine = Raise
  /\ pc = "render"
  /\ ld = UndResult

\* Reading a report: where a line is, how often it occurs, the number a
\* printed confidence stands for (in thousandths).
LineAt(l) == CHOOSE i \in 1..Len(report) : report[i] = l
Occurrences(l) == Cardinality({ i \in 1..Len(report) : report[i] = l })
DigitOf(tok) == CHOOSE d \in 0..9 : DigitStr[d + 1] = tok
IsDigit(tok) == \E d \in 0..9 : DigitStr[d + 1] = tok

\* s is x.xxx and is the value c to three decimals.
Shows(s, c) ==
  /\ Len(s) = 5
  /\ s[2] = "."
  /\ \A k \in {1, 3, 4, 5} : IsDigit(s[k])
  /\ LET v == 1000 * DigitOf(s[1]) + 100 * DigitOf(s[3])
                + 10 * DigitOf(s[4]) + DigitOf(s[5])
     IN  (100 * v - c <= 50 /\ c - 100 * v <= 50)

\* line is prefix, then the code, then (after sep) the value, then closing.
ShowsPair(line, prefix, code, sep, c, closing) ==
  LET n == Len(prefix) + Len(code) + Len(sep) IN
  /\ Len(line) = n + 5 + Len(closing)
  /\ SubSeq(line, 1, n) = prefix \o code \o sep
  /\ Shows(SubSeq(line, n + 1, n + 5), c)
  /\ SubSeq(line, n + 6, Len(line)) = closing

\* C6: the report has the sections FastText, GCLD3, Langdetect in this
\* order; each shows the language and the confidence, to three decimals,
\* that its adapter returned in this call, and the FastText section lists
\* every alternative the adapter returned, in the adapter's order.
C6_ReportFaithful ==
  pc = "done" =>
    LET iF == LineAt(<<"## FastText">>)
        iG == LineAt(<<"## GCLD3">>)
        iL == LineAt(<<"## Langdetect">>)
        n  == Len(ft.alternatives)
    IN  /\ Occurrences(<<"## FastText">>) = 1
        /\ Occurrences(<<"## GCLD3">>) = 1
        /\ Occurrences(<<"## Langdetect">>) = 1
        /\ iF < iG /\ iG < iL
        /\ ShowsPair(report[iF + 1], <<"- **Main prediction**: ">>,
                     ft.language, <<" (confidence: ">>, ft.confidence, <<")">>)
        /\ \A k \in 1..n :
             ShowsPair(report[iF + 2 + k], <<"  - ">>, ft.alternatives[k][1],
                       <<": ">>, ft.alternatives[k][2], <<>>)
        /\ iG = iF + 4 + (IF n = 0 THEN 1 ELSE n)
        /\ report[iG + 1] = <<"- **Language**: ">> \o gcld.language
        /\ ShowsPair(report[iG + 2], <<"- **Confidence**: ">>, <<>>, <<>>,
                     gcld.confidence, <<>>)
        /\ report[iG + 3] =
             <<"- **Is reliable**: ", IF gcld.reliable THEN "True" ELSE "False">>
        /\ iL = iG + 5
        /\ report[iL + 1] = <<"- **Language**: ">> \o ld.language
        /\ ShowsPair(report[iL + 2], <<"- **Confidence**: ">>, <<>>, <<>>,
                     ld.confidence, <<>>)
        /\ Len(report) = iL + 2

C6_Witness ==
  /\ pc = "done"
  /\ Len(ft.alternatives) = TopK
  /\ ft.language # Und
  /\ gcld.language # ld.language
  /\ gcld.language # ft.language
  /\ gcld.confidence % 100 # 0
  /\ Len(report) = 17

C8_EmptyTextIsUnd ==
  text = <<>> =>
    /\ ftEngine # NotCalled =>
         (~ft.escaped /\ ft.language = Und /\ ft.confidence = 0)
    /\ gcldEngine # NotCalled =>
         (~gcld.escaped /\ gcld.language = Und /\ gcld.confidence = 0)

\* The engine call raised or produced no result.
FtErrored == ftEngine.kind = "raise" \/ (ftEngine.kind = "ok" /\ ftEngine.probs = <<>>)
GcldErrored == gcldEngine.kind \in {"raise", "none"}
LdErrored == ldEngine.kind = "raise"

\* C9: an adapter returns "und" only if its engine call raised or produced
\* no result, or the top score was below the adapter's minimum confidence.
C9_UndOnlyOnErrorOrThreshold ==
  /\ ("language" \in DOMAIN ft /\ ft.language = Und) =>
       (FtErrored \/ ftEngine.probs[1] < MIN_CONFIDENCE)
  /\ ("language" \in DOMAIN gcld /\ gcld.language = Und) => GcldErrored
  /\ ("language" \in DOMAIN ld /\ ld.language = Und) => LdErrored

\* C9 as amended: an adapter returns "und" only if its engine call raised or
\* produced no result, or the top score was below the adapter's minimum
\* confidence, or the engine itself returned "und" as the language code.
C9_UndOnlyOnErrorThresholdOrEngineUnd ==
  /\ ("language" \in DOMAIN ft /\ ft.language = Und) =>
       (FtErrored \/ ftEngine.probs[1] < MIN_CONFIDENCE
          \/ Stripped(ftEngine.labels[1]) = Und)
  /\ ("language" \in DOMAIN gcld /\ gcld.language = Und) =>
       (GcldErrored \/ gcldEngine.language = Und)
  /\ ("language" \in DOMAIN ld /\ ld.language = Und) =>
       (LdErrored \/ ldEngine.lang = Und)

C9_Witness ==
  /\ gcldEngine.kind = "ok"
  /\ gcldEngine.language = Und
  /\ gcld.language = Und
  /\ pc = "langdetect"

\* C10: when the top probability is at least 0.10, the FastText adapter's
\* language and confidence are the first pair of its alternatives (the
\* top label without its prefix, the top probability), and the result has
\* no reliability flag.
C10_PrimaryIsFirstAlternative ==
  (FtAnswered /\ ftEngine.probs[1] >= MIN_CONFIDENCE) =>
    /\ <<ft.language, ft.confidence>> = ft.alternatives[1]
    /\ ft.language = Stripped(ftEngine.labels[1])
    /\ ft.confidence = ftEngine.probs[1]
    /\ "reliable" \notin DOMAIN ft

C10_Witness ==
  /\ FtAnswered
  /\ ftEngine.probs[1] > MIN_CONFIDENCE
  /\ Len(ft.alternatives) = TopK
  /\ ft.language = ft.alternatives[1][1]
  /\ ft.language # Und

====
